---------------------------- MODULE Spec2Model ----------------------------
(***************************************************************************)
(* Model of slowfast/datasets/kinetics.py: the Kinetics video loader.      *)
(* One dataset instance is constructed from a manifest and then serves     *)
(* fetches (__getitem__) and epoch-setter calls, one at a time.  A fetch   *)
(* is the retry loop of lines 302-546, cut into the steps of one attempt.  *)
(***************************************************************************)
EXTENDS Integers, Sequences, FiniteSets, TLC

VARIABLES
    mode,                  \* self.mode
    num_retries,           \* self._num_retries
    cfg,                   \* self.cfg (the fields the loader reads)
    csv_exists,            \* pathmgr.exists(path_to_file)
    manifest,              \* the lines of <mode>.csv
    path_to_videos,        \* self._path_to_videos
    labels,                \* self._labels
    spatial_temporal_idx,  \* self._spatial_temporal_idx
    video_meta,            \* self._video_meta
    meta_len,              \* len(self._video_meta)
    skip_rows,             \* self.skip_rows
    reads,                 \* history: calls of pandas.read_csv made by
                           \* the construction
    kpts,                  \* self.kpts
    loaded,                \* history: index -> times its side file was read
    epoch,                 \* self.epoch
    pc,                    \* position of the caller / of the running fetch
    index,                 \* local `index` of __getitem__
    i_try,                 \* loop variable of the retry loop
    video_container,       \* local `video_container`
    frames_decoded,        \* local `frames_decoded`
    pixels,                \* the byte values of the clip frames_decoded[0]
    meta_arg,              \* the video_meta argument of this attempt's decode
    bbox_index_decoded,    \* local `bbox_index_decoded[0]`
    bboxes,                \* local `bboxes`
    sampling,              \* locals temporal_sample_index,
                           \* spatial_sample_index, min_scale, max_scale,
                           \* crop_size
    spatial_sampling_args, \* history: arguments of the last call of
                           \* utils.spatial_sampling made by this fetch
    result,                \* what the last call returned or raised
    requested,             \* history: the index the caller asked for
    opens,                 \* history: container opens made by this fetch
    opened_index,          \* history: index handed to the last container open
    done,                  \* history: steps completed by the current attempt
    stub                   \* test harness: decoder outcome fixed per index

vars == <<mode, num_retries, cfg, csv_exists, manifest, path_to_videos,
          labels, spatial_temporal_idx, video_meta, meta_len, skip_rows, reads,
          kpts, loaded,
          epoch, pc,
          index,
          i_try, video_container, frames_decoded, pixels, meta_arg,
          bbox_index_decoded,
          bboxes, sampling, spatial_sampling_args, result, requested, opens,
          opened_index, done,
          stub>>

instanceVars == <<mode, num_retries, cfg, csv_exists, manifest>>
loaderVars   == <<path_to_videos, labels, spatial_temporal_idx, video_meta,
                 meta_len, skip_rows, reads>>

-----------------------------------------------------------------------------
(* Bounds of the model.                                                    *)

MaxRetries == 9      \* largest retry budget tried
MaxRows    == 2      \* a manifest has at most MaxRows lines
MaxEpoch   == 1      \* epochs handed to the epoch setter
MaxCrops   == 3      \* largest TEST.NUM_SPATIAL_CROPS tried
MaxStoredIdx == 5    \* largest stored spatial_temporal_index tried
ClipFrames   == 2    \* frames of a decoded clip
ClipHeight   == 1    \* rows of a frame
ClipWidth    == 2    \* columns of a frame
ClipChannels == 3    \* channels of a pixel
MaxPts       == 3    \* points of a polygon
MaxCoord     == 2    \* largest coordinate of a generated polygon

(* Program constants.                                                      *)

RetryDivisor  == 8     \* `self._num_retries // 8`
TrainCropSize == 256   \* `crop_size = 256`
ByteMax       == 255   \* `f_out[idx] / 255.0`

-----------------------------------------------------------------------------
(* Inputs.                                                                 *)

Modes == {"train", "val", "test", "bogus"}

Sep == ","           \* cfg.DATA.PATH_LABEL_SEPARATOR
PathPrefix == <<"p">> \* cfg.DATA.PATH_PREFIX

\* The lines of a manifest file, as sequences of characters: the three
\* accepted shapes and one line of four fields.
MasterFile == << <<"a", ",", "2">>,                 \* path<SEP>label
                 <<"b">>,                           \* bare path
                 <<"c", ",", "x", ",", "-", "1">>,  \* path<SEP>extra<SEP>label
                 <<"d", ",", "x", ",", "y", ",", "1">> >>

\* The manifests tried: every run of at most MaxRows consecutive lines.
Manifests ==
    UNION { { SubSeq(MasterFile, first, last) :
                last \in { l \in (first - 1)..Len(MasterFile) :
                             l - first + 1 <= MaxRows } } :
            first \in 1..Len(MasterFile) }

\* The retry budgets tried: none, one, the first budget for which
\* num_retries // 8 is not zero, and the largest.
RetryBudgets == {0, 1, RetryDivisor, MaxRetries}

\* The configurations a constructed loader is run under: both class counts
\* with a jitter range that passes the assertions of lines 234-235, one
\* range with min # max and one with min = max # 256.
Configs ==
    { [NUM_CLASSES |-> 2, TRAIN_JITTER_SCALES |-> <<256, 256>>,
       NUM_SPATIAL_CROPS |-> 1, TEST_CROP_SIZE |-> 256,
       RANDOM_FLIP |-> TRUE, TRAIN_JITTER_MOTION_SHIFT |-> TRUE,
       LOADER_CHUNK_SIZE |-> 0, SKIP_ROWS |-> 0],
      [NUM_CLASSES |-> 3, TRAIN_JITTER_SCALES |-> <<256, 256>>,
       NUM_SPATIAL_CROPS |-> 3, TEST_CROP_SIZE |-> 256,
       RANDOM_FLIP |-> FALSE, TRAIN_JITTER_MOTION_SHIFT |-> FALSE,
       LOADER_CHUNK_SIZE |-> 0, SKIP_ROWS |-> 0],
      [NUM_CLASSES |-> 2, TRAIN_JITTER_SCALES |-> <<256, 320>>,
       NUM_SPATIAL_CROPS |-> 3, TEST_CROP_SIZE |-> 224,
       RANDOM_FLIP |-> TRUE, TRAIN_JITTER_MOTION_SHIFT |-> FALSE,
       LOADER_CHUNK_SIZE |-> 0, SKIP_ROWS |-> 0],
      [NUM_CLASSES |-> 3, TRAIN_JITTER_SCALES |-> <<224, 224>>,
       NUM_SPATIAL_CROPS |-> 1, TEST_CROP_SIZE |-> 224,
       RANDOM_FLIP |-> FALSE, TRAIN_JITTER_MOTION_SHIFT |-> TRUE,
       LOADER_CHUNK_SIZE |-> 0, SKIP_ROWS |-> 0] }

\* The configurations the sampling-parameter selector is applied to.
SelectorConfigs ==
    [ NUM_CLASSES : {2},
      TRAIN_JITTER_SCALES : { <<256, 256>>, <<224, 224>>, <<256, 320>> },
      NUM_SPATIAL_CROPS : 1..MaxCrops,
      TEST_CROP_SIZE : {224, 256} ]

\* Outcomes of the external collaborators.
OpenOutcomes   == {"container", "None", "exception"}
DecodeOutcomes == {"clip", "None", "hasNone"}

\* Polygons and side-file contents ("frame<k>" -> list of polygons).
Poly1 == << <<2, 7>>, <<8, 3>>, <<5, 10>> >>
Poly2 == << <<1, 5>>, <<9, 5>>, <<9, 1>>, <<1, 1>> >>
\* The polygons the rectangle reduction is applied to: the two above and
\* every polygon of 1..MaxPts points with coordinates in 0..MaxCoord.
Polygons ==
    {Poly1, Poly2} \cup
    UNION { [1..n -> (0..MaxCoord) \X (0..MaxCoord)] : n \in 1..MaxPts }

KptsUniform == (0 :> << Poly1 >>) @@ (1 :> << Poly2 >>)
KptsRagged  == (0 :> << Poly1 >>) @@ (1 :> << Poly1, Poly2 >>)
KptsSwapped == (0 :> << Poly2 >>) @@ (1 :> << Poly1 >>)

\* The source-frame indices a decoded clip can carry; no side file has a
\* frame 2.
DecodedFrameIndices == { <<0, 1>>, <<0, 2>> }

\* Decoded clips, time x height x width x channel: background b everywhere
\* and byte v at position pos.
OneHot(pos, v, b) ==
    [t \in 1..ClipFrames |-> [h \in 1..ClipHeight |-> [w \in 1..ClipWidth |->
        [c \in 1..ClipChannels |-> IF <<t, h, w, c>> = pos THEN v ELSE b]]]]

ByteSamples == {0, 1, 128, ByteMax - 1, ByteMax}

Clips ==
    { OneHot(pos, v, b) :
        pos \in (1..ClipFrames) \X (1..ClipHeight) \X (1..ClipWidth)
                  \X (1..ClipChannels),
        v \in ByteSamples, b \in {0, ByteMax} }

\* The clip the decoder hands back where its content does not matter.
DecodedPixels == OneHot(<<1, 1, 1, 1>>, ByteMax, 0)

NoResult ==
    [kind |-> "none", error |-> "", frames |-> <<>>, label |-> 0, index |-> -1,
     time_idx |-> "", aux |-> {}, bboxes |-> <<>>, path |-> <<>>,
     trials |-> -1]

Raise(err) == [NoResult EXCEPT !.kind = "raise", !.error = err]

-----------------------------------------------------------------------------
(* Pure helpers.                                                           *)

\* str.split(sep) for a one-character separator.
RECURSIVE split(_, _)
split(s, sep) ==
    IF s = <<>> THEN << <<>> >>
    ELSE IF Head(s) = sep THEN << <<>> >> \o split(Tail(s), sep)
    ELSE LET r == split(Tail(s), sep)
         IN  << <<Head(s)>> \o Head(r) >> \o Tail(r)

Digits == {"0", "1", "2", "3", "4", "5", "6", "7", "8", "9"}

DigitVal(c) ==
    CASE c = "0" -> 0 [] c = "1" -> 1 [] c = "2" -> 2 [] c = "3" -> 3
      [] c = "4" -> 4 [] c = "5" -> 5 [] c = "6" -> 6 [] c = "7" -> 7
      [] c = "8" -> 8 [] c = "9" -> 9

RECURSIVE NatOf(_)
NatOf(s) ==
    IF s = <<>> THEN 0
    ELSE NatOf(SubSeq(s, 1, Len(s) - 1)) * 10 + DigitVal(s[Len(s)])

AllDigits(s) == s # <<>> /\ \A k \in 1..Len(s) : s[k] \in Digits

\* int(label): defined on an optional sign followed by digits.
IntParses(s) ==
    \/ AllDigits(s)
    \/ s # <<>> /\ s[1] \in {"-", "+"} /\ AllDigits(Tail(s))

IntOf(s) ==
    IF s[1] = "-" THEN 0 - NatOf(Tail(s))
    ELSE IF s[1] = "+" THEN NatOf(Tail(s))
    ELSE NatOf(s)

\* os.path.join(prefix, path)
join(prefix, path) ==
    IF path # <<>> /\ path[1] = "/" THEN path
    ELSE IF prefix = <<>> \/ prefix[Len(prefix)] = "/" THEN prefix \o path
    ELSE prefix \o <<"/">> \o path

\* The record pickled in the side file that belongs to a video path: the
\* file of video "b" has frames with different numbers of polygons, the
\* file of video "c" has the polygons of its two frames exchanged.
SideFile(path) ==
    IF path = join(PathPrefix, <<"b">>) THEN KptsRagged
    ELSE IF path = join(PathPrefix, <<"c">>) THEN KptsSwapped
    ELSE KptsUniform

-----------------------------------------------------------------------------
(* Construction: __init__ and _construct_loader.                           *)

EmptyLoader ==
    [paths |-> <<>>, labels |-> <<>>, stidx |-> <<>>, meta |-> <<>>,
     error |-> ""]

\* Variant of AppendEntry: the spatial-temporal index is not appended.
AppendEntry_no_stidx(st, clip_idx, label) ==
    [st EXCEPT !.labels = Append(@, label),
               !.meta   = (clip_idx :> {}) @@ @]

\* Variant of AppendEntry: the stored spatial-temporal index is the number
\* of the row.
AppendEntry_stidx_of_row(st, clip_idx, label) ==
    [st EXCEPT !.labels = Append(@, label),
               !.stidx  = Append(@, clip_idx),
               !.meta   = (clip_idx :> {}) @@ @]

\* The three appends and the metadata slot of one manifest row.
AppendEntry(st, clip_idx, label) ==
    [st EXCEPT !.labels = Append(@, label),
               !.stidx  = Append(@, 0),
               !.meta   = (clip_idx :> {}) @@ @]

\* Variant of AddRow: a bare path gets label 1.
AddRow_bare_path_one(st, clip_idx, path_label) ==
    IF st.error # "" THEN st
    ELSE
      LET fetch_info == split(path_label, Sep)
          n          == Len(fetch_info)
      IN  IF n \notin {1, 2, 3}
          THEN [st EXCEPT !.error = "RuntimeError"]
          ELSE
            LET path     == fetch_info[1]
                text     == IF n = 2 THEN fetch_info[2] ELSE fetch_info[3]
                withPath == [st EXCEPT
                               !.paths = Append(@, join(PathPrefix, path))]
            IN  IF n = 1 THEN AppendEntry(withPath, clip_idx, 1)
                ELSE IF ~IntParses(text)
                THEN [withPath EXCEPT !.error = "ValueError"]
                ELSE AppendEntry(withPath, clip_idx, IntOf(text))

\* One iteration of `for clip_idx, path_label in enumerate(rows)`.
AddRow(st, clip_idx, path_label) ==
    IF st.error # "" THEN st
    ELSE
      LET fetch_info == split(path_label, Sep)
          n          == Len(fetch_info)
      IN  IF n \notin {1, 2, 3}
          THEN [st EXCEPT !.error = "RuntimeError"]
          ELSE
            LET path     == fetch_info[1]
                text     == IF n = 2 THEN fetch_info[2] ELSE fetch_info[3]
                withPath == [st EXCEPT
                               !.paths = Append(@, join(PathPrefix, path))]
            IN  IF n = 1 THEN AppendEntry(withPath, clip_idx, 0)
                ELSE IF ~IntParses(text)
                THEN [withPath EXCEPT !.error = "ValueError"]
                ELSE AppendEntry(withPath, clip_idx, IntOf(text))

RECURSIVE AddRows(_, _, _)
AddRows(st, rows, k) ==
    IF k > Len(rows) THEN st
    ELSE AddRows(AddRow(st, k - 1, rows[k]), rows, k + 1)

\* Variant of construct_loader: no check that the manifest gave an entry.
construct_loader_allow_empty(exists, rows) ==
    IF ~exists THEN [EmptyLoader EXCEPT !.error = "AssertionError"]
    ELSE AddRows(EmptyLoader, rows, 1)

\* _construct_loader: the loader state and the error it raises, if any.
\* The rows are the lines of the file (line 144, LOADER_CHUNK_SIZE <= 0).
construct_loader(exists, rows) ==
    IF ~exists THEN [EmptyLoader EXCEPT !.error = "AssertionError"]
    ELSE LET st == AddRows(EmptyLoader, rows, 1)
         IN  IF st.error # "" THEN st
             ELSE IF Len(st.paths) > 0 THEN st
             \* the assertion message reads self._split_idx, never set
             ELSE [st EXCEPT !.error = "AttributeError"]

\* len(dataset) / num_videos
num_videos == Len(path_to_videos)

Indices == 0 .. (num_videos - 1)

\* the size of self._video_meta from which decode gets a fresh map (line 369)
MetaCacheLimit == 5000000

\* no decode call made yet by this attempt
NoMeta == [source |-> "none", key |-> -1]

video_meta_arg_at_most(n, i) ==
    IF n <= MetaCacheLimit
    THEN [source |-> "cache", key |-> i]
    ELSE [source |-> "fresh", key |-> -1]

\* the video_meta argument of decoder.decode: the cached map of the index,
\* self._video_meta[index], or a new empty map {}
video_meta_arg(n, i) ==
    IF n < MetaCacheLimit
    THEN [source |-> "cache", key |-> i]
    ELSE [source |-> "fresh", key |-> -1]

fetchLocals == <<index, i_try, video_container, frames_decoded, pixels,
                 meta_arg,
                 bbox_index_decoded, bboxes>>
history     == <<requested, opens, opened_index, done>>

ClearLocals ==
    /\ video_container' = "None"
    /\ frames_decoded' = "None"
    /\ pixels' = <<>>
    /\ meta_arg' = NoMeta
    /\ bbox_index_decoded' = <<>>
    /\ bboxes' = <<>>

\* Variant of mode_supported: every mode is let through.
\* Lines 75-79: chunked ingestion is for train mode with a positive chunk size.
use_chunk_loading(m, c) == m \in {"train"} /\ c.LOADER_CHUNK_SIZE > 0

\* pandas.read_csv(f, chunksize, skiprows), lines 196-200, for a file of
\* one-column lines read from its start: the reader raises (EmptyDataError)
\* when no line is left after the skipped ones to take the column names from.
read_csv_raises(lines, skip) == skip >= Len(lines)

\* Lines 196-200 and 206: the flattened values of the first chunk.  The line
\* after the skipped ones gives the column names; the chunk holds the up to
\* `size` lines that follow it.
first_chunk(lines, skip, size) ==
    SubSeq(lines, skip + 2,
           IF skip + 1 + size < Len(lines) THEN skip + 1 + size
           ELSE Len(lines))

\* The depth at which the interpreter ends the recursion of _get_chunk with
\* RecursionError.
MaxReads == 4

\* _get_chunk, lines 194-206, after n reads: the rows it returns, the offset
\* it leaves in self.skip_rows, the reads made and the error raised, if any.
\* Every exception of the read sets the offset to zero and calls _get_chunk
\* again (lines 202-204).
RECURSIVE get_chunk(_, _, _, _)
get_chunk(lines, skip, size, n) ==
    IF n >= MaxReads
    THEN [rows |-> <<>>, skip |-> skip, reads |-> n, error |-> "RecursionError"]
    ELSE IF read_csv_raises(lines, skip)
    THEN get_chunk(lines, 0, size, n + 1)
    ELSE [rows |-> first_chunk(lines, skip, size), skip |-> skip,
          reads |-> n + 1, error |-> ""]

mode_supported_any(m) == TRUE

\* Lines 60-65: the assertion on the mode.
mode_supported(m) == m \in {"train", "val", "test"}

Construct ==
    /\ pc = "new"
    /\ IF ~mode_supported(mode)
       THEN /\ pc' = "ctor_failed"
            /\ result' = Raise("AssertionError")
            /\ UNCHANGED loaderVars
       ELSE LET ch == IF csv_exists /\ use_chunk_loading(mode, cfg)
                      THEN get_chunk(manifest, cfg.SKIP_ROWS,
                                     cfg.LOADER_CHUNK_SIZE, 0)
                      ELSE [rows |-> manifest, skip |-> cfg.SKIP_ROWS,
                            reads |-> 0, error |-> ""]
                st == IF ch.error # ""
                      THEN [EmptyLoader EXCEPT !.error = ch.error]
                      ELSE construct_loader(csv_exists, ch.rows)
            IN  /\ skip_rows' = ch.skip
                /\ reads' = ch.reads
                /\ path_to_videos' = st.paths
                /\ labels' = st.labels
                /\ spatial_temporal_idx' = st.stidx
                /\ video_meta' = st.meta
                /\ meta_len' = Cardinality(DOMAIN st.meta)
                /\ IF st.error # ""
                   THEN /\ pc' = "ctor_failed"
                        /\ result' = Raise(st.error)
                   ELSE /\ pc' = "idle"
                        /\ result' = NoResult
    /\ kpts' = <<>>
    /\ loaded' = <<>>
    /\ epoch' = 0
    /\ UNCHANGED <<instanceVars, fetchLocals, history, stub, sampling,
                   spatial_sampling_args>>

\* Variant of set_epoch_num: the new epoch starts with an empty
\* bounding-box cache.
set_epoch_num_clears_cache ==
    /\ pc \in {"idle", "returned", "raised"}
    /\ \E e \in 0..MaxEpoch : epoch' = e
    /\ kpts' = <<>>
    /\ UNCHANGED <<instanceVars, loaderVars, loaded, pc, fetchLocals,
                   result,
                   history, stub, sampling, spatial_sampling_args>>

\* _set_epoch_num
set_epoch_num ==
    /\ pc \in {"idle", "returned", "raised"}
    /\ \E e \in 0..MaxEpoch : epoch' = e
    /\ UNCHANGED <<instanceVars, loaderVars, kpts, loaded, pc, fetchLocals,
                   result,
                   history, stub, sampling, spatial_sampling_args>>

-----------------------------------------------------------------------------
(* __getitem__: sampling parameters, then the retry loop.                  *)

\* Variant of in_range: the loop runs one iteration too many.
in_range_inclusive(i, n) == i <= n

\* `for i_try in range(self._num_retries)`: is there an iteration i?
in_range(i, n) == i < n

\* `continue`: the next iteration, or the for-else clause.
Continue(new_index) ==
    /\ index' = new_index
    /\ IF in_range(i_try + 1, num_retries)
       THEN /\ i_try' = i_try + 1
            /\ pc' = "acquire"
       ELSE /\ i_try' = i_try
            /\ pc' = "exhaust"
    /\ ClearLocals
    /\ UNCHANGED result

\* An error leaves __getitem__.
Escape(err) ==
    /\ pc' = "raised"
    /\ result' = Raise(err)
    /\ ClearLocals
    /\ UNCHANGED <<index, i_try>>

\* No call of utils.spatial_sampling yet.
NoCall ==
    [called |-> FALSE, spatial_idx |-> "unbound", min_scale |-> "unbound",
     max_scale |-> "unbound", crop_size |-> "unbound",
     random_horizontal_flip |-> FALSE, motion_shift |-> FALSE]

\* The five locals before the selector has assigned them.
Unassigned ==
    [temporal_sample_index |-> "unbound", spatial_sample_index |-> "unbound",
     min_scale |-> "unbound", max_scale |-> "unbound",
     crop_size |-> "unbound"]

\* Variant of sampling_params: the spatial index is s % n also for n = 1.
sampling_params_always_mod(m, c, s) ==
    IF m \in {"train", "val"}
    THEN [temporal_sample_index |-> -1, spatial_sample_index |-> -1,
          min_scale |-> c.TRAIN_JITTER_SCALES[1],
          max_scale |-> c.TRAIN_JITTER_SCALES[2],
          crop_size |-> TrainCropSize]
    ELSE IF m \in {"test"}
    THEN LET n == c.NUM_SPATIAL_CROPS
         IN  [temporal_sample_index |-> s \div n,
              spatial_sample_index |-> s % n,
              min_scale |-> IF n > 1 THEN c.TEST_CROP_SIZE
                            ELSE c.TRAIN_JITTER_SCALES[1],
              max_scale |-> IF n > 1 THEN c.TEST_CROP_SIZE
                            ELSE c.TRAIN_JITTER_SCALES[1],
              crop_size |-> c.TEST_CROP_SIZE]
    ELSE Unassigned

\* Variant of sampling_params: with one spatial crop the test scales are the
\* two ends of the training jitter range.
sampling_params_test_jitter(m, c, s) ==
    IF m \in {"train", "val"}
    THEN [temporal_sample_index |-> -1, spatial_sample_index |-> -1,
          min_scale |-> c.TRAIN_JITTER_SCALES[1],
          max_scale |-> c.TRAIN_JITTER_SCALES[2],
          crop_size |-> TrainCropSize]
    ELSE IF m \in {"test"}
    THEN LET n == c.NUM_SPATIAL_CROPS
         IN  [temporal_sample_index |-> s \div n,
              spatial_sample_index |-> IF n > 1 THEN s % n ELSE 1,
              min_scale |-> IF n > 1 THEN c.TEST_CROP_SIZE
                            ELSE c.TRAIN_JITTER_SCALES[1],
              max_scale |-> IF n > 1 THEN c.TEST_CROP_SIZE
                            ELSE c.TRAIN_JITTER_SCALES[2],
              crop_size |-> c.TEST_CROP_SIZE]
    ELSE Unassigned

\* Lines 224-265: the sampling parameters of a fetch in mode m under
\* configuration c for a video whose stored spatial_temporal_index is s
\* (NUM_SPATIAL_CROPS >= 1 in every configuration tried).
sampling_params(m, c, s) ==
    IF m \in {"train", "val"}
    THEN [temporal_sample_index |-> -1, spatial_sample_index |-> -1,
          min_scale |-> c.TRAIN_JITTER_SCALES[1],
          max_scale |-> c.TRAIN_JITTER_SCALES[2],
          crop_size |-> TrainCropSize]
    ELSE IF m \in {"test"}
    THEN LET n == c.NUM_SPATIAL_CROPS
         IN  [temporal_sample_index |-> s \div n,
              spatial_sample_index |-> IF n > 1 THEN s % n ELSE 1,
              min_scale |-> IF n > 1 THEN c.TEST_CROP_SIZE
                            ELSE c.TRAIN_JITTER_SCALES[1],
              max_scale |-> IF n > 1 THEN c.TEST_CROP_SIZE
                            ELSE c.TRAIN_JITTER_SCALES[1],
              crop_size |-> c.TEST_CROP_SIZE]
    ELSE Unassigned

\* Variant of selector_error: the crop size is not compared.
selector_error_scales_only(m, p) ==
    IF m \in {"train", "val"}
    THEN IF p.min_scale = p.max_scale THEN "" ELSE "AssertionError"
    ELSE IF m \in {"test"}
    THEN IF p.min_scale = p.max_scale THEN "" ELSE "AssertionError"
    ELSE "NotImplementedError"

\* Lines 224-283: the assertions of the sampling-parameter selector on the
\* parameters p it has computed.
selector_error(m, p) ==
    IF m \in {"train", "val"}
    THEN IF p.min_scale = p.max_scale /\ p.max_scale = p.crop_size
         THEN "" ELSE "AssertionError"
    ELSE IF m \in {"test"}
    THEN IF p.min_scale = p.max_scale THEN "" ELSE "AssertionError"
    ELSE "NotImplementedError"

\* The caller invokes __getitem__(i); lines 224-302.
StartFetch ==
    /\ pc \in {"idle", "returned", "raised"}
    /\ \E i \in Indices :
         LET p   == sampling_params(mode, cfg, spatial_temporal_idx[i + 1])
             err == selector_error(mode, p)
         IN  /\ requested' = i
             /\ index' = i
             /\ sampling' = p
             /\ spatial_sampling_args' = NoCall
             /\ IF err # ""
                THEN /\ pc' = "raised"
                     /\ result' = Raise(err)
                     /\ i_try' = -1
                ELSE /\ result' = NoResult
                     /\ IF in_range(0, num_retries)
                        THEN /\ i_try' = 0
                             /\ pc' = "acquire"
                        ELSE /\ i_try' = -1          \* i_try stays unbound
                             /\ pc' = "exhaust"
    /\ opens' = 0
    /\ opened_index' = -1
    /\ done' = {}
    /\ ClearLocals
    /\ UNCHANGED <<instanceVars, loaderVars, kpts, loaded, epoch, stub>>

\* Variants of replace_after_open: the threshold attempt itself replaces;
\* the mode is not looked at.
replace_after_open_at_threshold(m, i, n) ==
    m \notin {"test"} /\ i >= n \div RetryDivisor
replace_after_open_any_mode(m, i, n) ==
    i > n \div RetryDivisor

\* Variant of randint: the upper end is one too far.
randint_past_end(a, b) == a .. (b + 1)

\* random.randint(a, b): the values it can return.
randint(a, b) == a .. b

\* Line 326: is the index replaced after a container failure?
replace_after_open(m, i, n) ==
    m \notin {"test"} /\ i > n \div RetryDivisor

\* Lines 303-329: ACQUIRE_CONTAINER.
Acquire ==
    /\ pc = "acquire"
    /\ opens' = opens + 1
    /\ opened_index' = index
    /\ \E o \in (IF stub.on THEN {"container"} ELSE OpenOutcomes) :
         IF o = "container"
         THEN /\ video_container' = "container"
              /\ pc' = "decode"
              /\ done' = {"open"}
              /\ UNCHANGED <<index, i_try, frames_decoded, pixels, meta_arg,
                             bbox_index_decoded, bboxes, result>>
         ELSE /\ done' = {"failed"}
              /\ IF replace_after_open(mode, i_try, num_retries)
                 THEN \E j \in randint(0, Len(path_to_videos) - 1) : Continue(j)
                 ELSE Continue(index)
    /\ UNCHANGED <<instanceVars, loaderVars, kpts, loaded, epoch, requested,
                   stub, sampling, spatial_sampling_args>>

\* Lines 331-387: DECODE.
Decode ==
    /\ pc = "decode"
    /\ \E o \in (IF stub.on
                 THEN (IF index \in stub.F THEN {"None"} ELSE {"clip"})
                 ELSE DecodeOutcomes) :
         /\ frames_decoded' = o
         /\ pixels' = (IF o = "clip" THEN DecodedPixels ELSE <<>>)
         /\ meta_arg' = video_meta_arg(meta_len, index)
         /\ done' = done \cup (IF o = "clip" THEN {"decode"}
                                ELSE {"decode", "failed"})
         /\ IF o = "clip"
            THEN \E b \in (IF stub.on THEN { <<0, 1>> }
                           ELSE DecodedFrameIndices) :
                     bbox_index_decoded' = b
            ELSE bbox_index_decoded' = <<>>
    /\ pc' = "load_kpts"
    /\ UNCHANGED <<instanceVars, loaderVars, kpts, loaded, epoch, index, i_try,
                   video_container, bboxes, result, requested, opens,
                   opened_index, stub, sampling, spatial_sampling_args>>

\* Variant of cached: the store is never found to hold the index.
cached_never(i, store) == FALSE

\* Line 392: `index not in self.kpts`, negated.
cached(i, store) == i \in DOMAIN store

\* Lines 392-402: the keypoint record of `index`, read from its side file
\* the first time.
LoadKpts ==
    /\ pc = "load_kpts"
    /\ IF cached(index, kpts)
       THEN /\ pc' = "validate"
            /\ done' = done \cup {"kpts"}
            /\ UNCHANGED <<kpts, loaded, fetchLocals, result>>
       ELSE \/ /\ ~stub.on
               /\ Escape("FileNotFoundError")
               /\ UNCHANGED <<kpts, loaded, done>>
            \/ /\ kpts' = (index :> (IF stub.on THEN KptsUniform
                                      ELSE SideFile(path_to_videos[index + 1])))
                             @@ kpts
               /\ loaded' = (index :> (IF index \in DOMAIN loaded
                                        THEN loaded[index] + 1 ELSE 1))
                             @@ loaded
               /\ pc' = "validate"
               /\ done' = done \cup {"kpts"}
               /\ UNCHANGED <<fetchLocals, result>>
    /\ UNCHANGED <<instanceVars, loaderVars, epoch, requested, opens,
                   opened_index, stub, sampling, spatial_sampling_args>>

\* Variants of decode_failed: one of the two tests of line 429 is missing.
decode_failed_only_partial(f) == f = "hasNone"
decode_failed_only_null(f) == f = "None"

\* Line 429: did decoding fail?
decode_failed(f) == f = "None" \/ f = "hasNone"

\* Lines 429-441: VALIDATE.
Validate ==
    /\ pc = "validate"
    /\ IF decode_failed(frames_decoded)
       THEN /\ UNCHANGED done
            /\ IF mode \notin {"test"}
               THEN IF num_retries \div RetryDivisor = 0
                    THEN Escape("ZeroDivisionError")
                    ELSE IF i_try % (num_retries \div RetryDivisor) = 0
                    THEN \E j \in randint(0, Len(path_to_videos) - 1) :
                             Continue(j)
                    ELSE Continue(index)
               ELSE Continue(index)
       ELSE /\ pc' = "align"
            /\ done' = done \cup {"validate"}
            /\ UNCHANGED <<fetchLocals, result>>
    /\ UNCHANGED <<instanceVars, loaderVars, kpts, loaded, epoch, requested,
                   opens,
                   opened_index, stub, sampling, spatial_sampling_args>>

-----------------------------------------------------------------------------
(* Success path: ALIGN_BBOXES, POSTPROCESS, return.                        *)

SeqMin(q) == CHOOSE m \in {q[k] : k \in 1..Len(q)} :
                 \A k \in 1..Len(q) : m <= q[k]
SeqMax(q) == CHOOSE m \in {q[k] : k \in 1..Len(q)} :
                 \A k \in 1..Len(q) : m >= q[k]

\* Variant of actual_pts: the corners are listed the other way round.
actual_pts_other_way(box) ==
    LET x_pts == [k \in 1..Len(box) |-> box[k][1]]
        y_pts == [k \in 1..Len(box) |-> box[k][2]]
        x_min == SeqMin(x_pts)
        x_max == SeqMax(x_pts)
        y_min == SeqMin(y_pts)
        y_max == SeqMax(y_pts)
    IN  << <<x_min, y_min>>, <<x_min, y_max>>,
           <<x_max, y_max>>, <<x_max, y_min>> >>

\* Lines 452-463: one polygon reduced to its axis-aligned rectangle.
actual_pts(box) ==
    LET x_pts == [k \in 1..Len(box) |-> box[k][1]]
        y_pts == [k \in 1..Len(box) |-> box[k][2]]
        x_min == SeqMin(x_pts)
        x_max == SeqMax(x_pts)
        y_min == SeqMin(y_pts)
        y_max == SeqMax(y_pts)
    IN  << <<x_min, y_min>>, <<x_max, y_min>>,
           <<x_max, y_max>>, <<x_min, y_max>> >>

\* Lines 450-464: the rectangles of one frame.
small_bboxes(bounding_boxes) ==
    [k \in 1..Len(bounding_boxes) |-> actual_pts(bounding_boxes[k])]

\* Lines 443-465: the error alignment raises, if any.
align_error(record, frame_nums) ==
    IF \E k \in 1..Len(frame_nums) : frame_nums[k] \notin DOMAIN record
    THEN "KeyError"
    ELSE IF \E k \in 1..Len(frame_nums) :
              \E b \in 1..Len(record[frame_nums[k]]) :
                  record[frame_nums[k]][b] = <<>>
    THEN "ValueError"          \* min() of an empty sequence
    ELSE ""

Align ==
    /\ pc = "align"
    /\ LET record == kpts[index]
           err    == align_error(record, bbox_index_decoded)
       IN  IF err # ""
           THEN /\ Escape(err)
                /\ UNCHANGED done
           ELSE /\ bboxes' = [k \in 1..Len(bbox_index_decoded) |->
                                small_bboxes(record[bbox_index_decoded[k]])]
                /\ pc' = "post"
                /\ done' = done \cup {"align"}
                /\ UNCHANGED <<index, i_try, video_container, frames_decoded,
                               pixels, meta_arg, bbox_index_decoded, result>>
    /\ UNCHANGED <<instanceVars, loaderVars, kpts, loaded, epoch, requested,
                   opens,
                   opened_index, stub, sampling, spatial_sampling_args>>

\* The sizes of a four-dimensional tensor; <<>> is the tensor without
\* entries.
shape(x) ==
    IF Len(x) = 0 THEN <<0, 0, 0, 0>>
    ELSE IF Len(x[1]) = 0 THEN <<Len(x), 0, 0, 0>>
    ELSE IF Len(x[1][1]) = 0 THEN <<Len(x), Len(x[1]), 0, 0>>
    ELSE <<Len(x), Len(x[1]), Len(x[1][1]), Len(x[1][1][1])>>

\* Tensor.float(): a byte v becomes the fraction v / 1.
float(x) ==
    [a \in 1..Len(x) |-> [b \in 1..Len(x[a]) |-> [c \in 1..Len(x[a][b]) |->
        [d \in 1..Len(x[a][b][c]) |-> [num |-> x[a][b][c][d], den |-> 1]]]]]

\* Tensor / k for a positive whole number k.
divide(x, k) ==
    [a \in 1..Len(x) |-> [b \in 1..Len(x[a]) |-> [c \in 1..Len(x[a][b]) |->
        [d \in 1..Len(x[a][b][c]) |->
            [num |-> x[a][b][c][d].num, den |-> x[a][b][c][d].den * k]]]]]

\* Tensor.permute(dims): axis k of the result is axis dims[k] of x (axes
\* counted from 0).
permute(x, dims) ==
    LET sh     == shape(x)
        osh    == [k \in 1..4 |-> sh[dims[k] + 1]]
        src(i) == [ax \in 1..4 |-> i[CHOOSE k \in 1..4 : dims[k] + 1 = ax]]
    IN  [a \in 1..osh[1] |-> [b \in 1..osh[2] |-> [c \in 1..osh[3] |->
            [d \in 1..osh[4] |->
                LET j == src(<<a, b, c, d>>)
                IN  x[j[1]][j[2]][j[3]][j[4]]]]]]

\* Variant of post_process: the values are not divided.
post_process_no_scale(x) == permute(float(x), <<3, 0, 1, 2>>)

\* Lines 481-499: clone, float, / 255.0, permute(3, 0, 1, 2).  The spatial
\* sampling and the pathway packing that follow are done by utils.
post_process(x) == permute(divide(float(x), ByteMax), <<3, 0, 1, 2>>)

\* Variant of spatial_sampling_call: the flip is asked for in train mode
\* only.
spatial_sampling_call_train_flip(m, c, p) ==
    [called |-> TRUE,
     spatial_idx |-> p.spatial_sample_index,
     min_scale |-> p.min_scale, max_scale |-> p.max_scale,
     crop_size |-> p.crop_size,
     random_horizontal_flip |-> IF m \in {"train"} THEN c.RANDOM_FLIP
                                ELSE FALSE,
     motion_shift |-> IF m \in {"train"} THEN c.TRAIN_JITTER_MOTION_SHIFT
                      ELSE FALSE]

\* Lines 506-519: the arguments handed to utils.spatial_sampling in mode m
\* under configuration c with the sampling parameters p.
spatial_sampling_call(m, c, p) ==
    [called |-> TRUE,
     spatial_idx |-> p.spatial_sample_index,
     min_scale |-> p.min_scale, max_scale |-> p.max_scale,
     crop_size |-> p.crop_size,
     random_horizontal_flip |-> c.RANDOM_FLIP,
     motion_shift |-> IF m \in {"train"} THEN c.TRAIN_JITTER_MOTION_SHIFT
                      ELSE FALSE]

\* Lines 473-476: the label handed back.
coerce_label(label, num_classes) ==
    IF num_classes = 2 /\ label > 0 THEN 1 ELSE label

\* torch.Tensor(bboxes) needs the same number of boxes in every frame.
rectangular(b) ==
    \A j, k \in 1..Len(b) : Len(b[j]) = Len(b[k])

\* Variant of item: the index the caller asked for is handed back.
item_requested(frames, label, idx, time_idx, boxes) ==
    [NoResult EXCEPT !.kind = "return", !.frames = frames, !.label = label,
                     !.index = requested, !.time_idx = time_idx, !.aux = {},
                     !.bboxes = boxes]

\* Variant of item: the label is the one of the index the caller asked for.
item_requested_label(frames, label, idx, time_idx, boxes) ==
    [NoResult EXCEPT !.kind = "return", !.frames = frames,
                     !.label = coerce_label(labels[requested + 1],
                                            cfg.NUM_CLASSES),
                     !.index = idx, !.time_idx = time_idx, !.aux = {},
                     !.bboxes = boxes]

\* Line 540: the tuple handed back.
item(frames, label, idx, time_idx, boxes) ==
    [NoResult EXCEPT !.kind = "return", !.frames = frames, !.label = label,
                     !.index = idx, !.time_idx = time_idx, !.aux = {},
                     !.bboxes = boxes]

\* Variant of Return: the result is dropped and the loop goes on.
Return_fallthrough(tuple) == Continue(index)

\* `return` inside the loop body: the call ends here.
Return(tuple) ==
    /\ result' = tuple
    /\ pc' = "returned"
    /\ ClearLocals
    /\ UNCHANGED <<index, i_try>>

\* Lines 467-540: POSTPROCESS and the return statement.
PostProcess ==
    /\ pc = "post"
    /\ IF ~rectangular(bboxes)
       THEN /\ Escape("ValueError")
            /\ UNCHANGED done
       ELSE /\ Return(item(post_process(pixels),
                            coerce_label(labels[index + 1], cfg.NUM_CLASSES),
                            index, "time_idx", bboxes))
            /\ done' = done \cup {"post"}
    /\ spatial_sampling_args' = spatial_sampling_call(mode, cfg, sampling)
    /\ UNCHANGED <<instanceVars, loaderVars, kpts, loaded, epoch, requested,
                   opens, opened_index, stub, sampling>>

\* Lines 541-546: the for-else clause.
Exhaust ==
    /\ pc = "exhaust"
    /\ pc' = "raised"
    /\ IF i_try = -1
       THEN result' = Raise("UnboundLocalError")
       ELSE result' = [Raise("RuntimeError") EXCEPT
                         !.index  = index,
                         !.path   = path_to_videos[index + 1],
                         !.trials = i_try]
    /\ ClearLocals
    /\ UNCHANGED <<instanceVars, loaderVars, kpts, loaded, epoch, index, i_try,
                   history, stub, sampling, spatial_sampling_args>>

-----------------------------------------------------------------------------
(* Specifications.                                                         *)

InitCommon ==
    /\ mode \in Modes
    /\ num_retries \in RetryBudgets
    /\ cfg \in Configs
    /\ csv_exists \in BOOLEAN
    /\ manifest \in (IF csv_exists THEN Manifests ELSE { <<>> })
    /\ path_to_videos = <<>>
    /\ labels = <<>>
    /\ spatial_temporal_idx = <<>>
    /\ video_meta = <<>>
    /\ meta_len = 0
    /\ skip_rows = 0
    /\ reads = 0
    /\ kpts = <<>>
    /\ loaded = <<>>
    /\ epoch = 0
    /\ pc = "new"
    /\ index = -1
    /\ i_try = -1
    /\ video_container = "None"
    /\ frames_decoded = "None"
    /\ pixels = <<>>
    /\ meta_arg = NoMeta
    /\ bbox_index_decoded = <<>>
    /\ bboxes = <<>>
    /\ sampling = Unassigned
    /\ spatial_sampling_args = NoCall
    /\ result = NoResult
    /\ requested = -1
    /\ opens = 0
    /\ opened_index = -1
    /\ done = {}

Init ==
    /\ InitCommon
    /\ stub = [on |-> FALSE, F |-> {}]

\* The same loader driven by a decoder stub that fails exactly for the
\* indices in F; containers open and side files are readable.
InitStub ==
    /\ InitCommon
    /\ \E F \in SUBSET (0 .. (MaxRows - 1)) : stub = [on |-> TRUE, F |-> F]

Next ==
    \/ Construct
    \/ set_epoch_num
    \/ StartFetch
    \/ Acquire
    \/ Decode
    \/ LoadKpts
    \/ Validate
    \/ Align
    \/ PostProcess
    \/ Exhaust

Spec == Init /\ [][Next]_vars

SpecStub == InitStub /\ [][Next]_vars

\* The sampling-parameter selector on its own: a loader of one video whose
\* stored spatial_temporal_index is any value up to MaxStoredIdx, under
\* every configuration of SelectorConfigs, and the calls of __getitem__ up to
\* the head of the retry loop.
InitSelector ==
    /\ mode \in {"train", "val", "test"}
    /\ num_retries = 1
    /\ cfg \in SelectorConfigs
    /\ csv_exists = TRUE
    /\ manifest = << MasterFile[1] >>
    /\ path_to_videos = << join(PathPrefix, <<"a">>) >>
    /\ labels = <<2>>
    /\ \E s \in 0..MaxStoredIdx : spatial_temporal_idx = <<s>>
    /\ video_meta = (0 :> {})
    /\ meta_len = 1
    /\ skip_rows = 0
    /\ reads = 0
    /\ kpts = <<>>
    /\ loaded = <<>>
    /\ epoch = 0
    /\ pc = "idle"
    /\ index = -1
    /\ i_try = -1
    /\ video_container = "None"
    /\ frames_decoded = "None"
    /\ pixels = <<>>
    /\ meta_arg = NoMeta
    /\ bbox_index_decoded = <<>>
    /\ bboxes = <<>>
    /\ sampling = Unassigned
    /\ spatial_sampling_args = NoCall
    /\ result = NoResult
    /\ requested = -1
    /\ opens = 0
    /\ opened_index = -1
    /\ done = {}
    /\ stub = [on |-> FALSE, F |-> {}]

NextSelector == StartFetch

\* The post-processing on its own: a fetch in test mode whose first attempt
\* has opened, decoded, validated and aligned a clip of Clips.
InitTensor ==
    /\ mode = "test"
    /\ num_retries = 1
    /\ cfg \in { c \in Configs : c.NUM_SPATIAL_CROPS = 1 /\ c.NUM_CLASSES = 2 }
    /\ csv_exists = TRUE
    /\ manifest = << MasterFile[1] >>
    /\ path_to_videos = << join(PathPrefix, <<"a">>) >>
    /\ labels = <<2>>
    /\ spatial_temporal_idx = <<0>>
    /\ video_meta = (0 :> {})
    /\ meta_len = 1
    /\ skip_rows = 0
    /\ reads = 0
    /\ kpts = (0 :> KptsUniform)
    /\ loaded = (0 :> 1)
    /\ epoch = 0
    /\ pc = "post"
    /\ index = 0
    /\ i_try = 0
    /\ video_container = "container"
    /\ frames_decoded = "clip"
    /\ pixels \in Clips
    /\ meta_arg = video_meta_arg(meta_len, index)
    /\ bbox_index_decoded = <<0, 1>>
    /\ bboxes = [k \in 1..2 |-> small_bboxes(KptsUniform[k - 1])]
    /\ sampling = sampling_params(mode, cfg, 0)
    /\ spatial_sampling_args = NoCall
    /\ result = NoResult
    /\ requested = 0
    /\ opens = 1
    /\ opened_index = 0
    /\ done = {"open", "decode", "kpts", "validate", "align"}
    /\ stub = [on |-> FALSE, F |-> {}]

NextTensor == PostProcess

\* The box alignment on its own: a fetch in test mode whose first attempt
\* has opened, decoded and validated a clip of frames 0 and 1, for a video
\* whose keypoint record holds one polygon of Polygons per frame.
InitBbox ==
    /\ mode = "test"
    /\ num_retries = 1
    /\ cfg \in { c \in Configs : c.NUM_SPATIAL_CROPS = 1 /\ c.NUM_CLASSES = 2 }
    /\ csv_exists = TRUE
    /\ manifest = << MasterFile[1] >>
    /\ path_to_videos = << join(PathPrefix, <<"a">>) >>
    /\ labels = <<2>>
    /\ spatial_temporal_idx = <<0>>
    /\ video_meta = (0 :> {})
    /\ meta_len = 1
    /\ skip_rows = 0
    /\ reads = 0
    /\ \E box \in Polygons :
          kpts = (0 :> ((0 :> << box >>) @@ (1 :> << Poly2 >>)))
    /\ loaded = (0 :> 1)
    /\ epoch = 0
    /\ pc = "align"
    /\ index = 0
    /\ i_try = 0
    /\ video_container = "container"
    /\ frames_decoded = "clip"
    /\ pixels = DecodedPixels
    /\ meta_arg = video_meta_arg(meta_len, index)
    /\ bbox_index_decoded = <<0, 1>>
    /\ bboxes = <<>>
    /\ sampling = sampling_params(mode, cfg, 0)
    /\ spatial_sampling_args = NoCall
    /\ result = NoResult
    /\ requested = 0
    /\ opens = 1
    /\ opened_index = 0
    /\ done = {"open", "decode", "kpts", "validate"}
    /\ stub = [on |-> FALSE, F |-> {}]

NextBbox == Align

SpecBbox == InitBbox /\ [][NextBbox]_vars

SpecTensor == InitTensor /\ [][NextTensor]_vars

SpecSelector == InitSelector /\ [][NextSelector]_vars

-----------------------------------------------------------------------------
(* Properties.                                                             *)

Running == {"acquire", "decode", "load_kpts", "validate", "align", "post",
            "exhaust"}
Ended   == {"returned", "raised"}
AllSteps == {"open", "decode", "kpts", "validate", "align", "post"}

StageOf(p) ==
    CASE p = "acquire" -> 0 [] p = "decode" -> 1 [] p = "load_kpts" -> 2
      [] p = "validate" -> 3 [] p = "align" -> 4 [] p = "post" -> 5

\* Progress measure of a fetch: it grows with every step and is bounded.
Rank ==
    IF pc = "exhaust" THEN 6 * num_retries
    ELSE IF pc \in Running THEN 6 * i_try + StageOf(pc)
    ELSE 6 * num_retries + 1

AttemptsWithinBudget ==
    /\ opens <= num_retries
    /\ pc \in Running \ {"exhaust"} => i_try < num_retries

FetchStepAdvances ==
    pc \in Running =>
        /\ Rank' > Rank
        /\ Rank' <= 6 * num_retries + 1
        /\ pc' \in Running \cup Ended

\* C1: a fetch opens at most num_retries containers, and every step of a
\* running fetch moves it strictly forward in a bounded measure, so that it
\* ends (returns or raises) after finitely many steps.
C1_BoundedAttempts ==
    [] AttemptsWithinBudget /\ [][FetchStepAdvances]_vars

C1_Witness ==
    /\ pc = "raised"
    /\ result.error = "RuntimeError"
    /\ opens = num_retries
    /\ num_retries >= RetryDivisor

TransientFailureRetries ==
    num_retries >= 1 =>
        /\ pc = "acquire" => pc' \in {"decode", "acquire", "exhaust"}
        /\ (pc = "validate" /\ decode_failed(frames_decoded))
              => pc' \in {"acquire", "exhaust"}
        /\ pc = "exhaust" => result'.error = "RuntimeError"

\* C2 (as claimed): with a budget of at least one, an attempt whose container
\* did not open or whose decode result failed validation (its keypoint record
\* being available) is followed by the next attempt or by the for-else
\* clause, and the for-else clause raises the exhaustion error; nothing else
\* is raised.
C2_TransientNeverEscapes ==
    [][TransientFailureRetries]_vars

\* C3 (as claimed): a fetch whose attempts all failed (the last one failed,
\* with its keypoint record available when it got as far as decoding) ends
\* with the exhaustion error after exactly num_retries container opens.
C3_ExhaustionAfterAllRetries ==
    (/\ pc = "raised"
     /\ num_retries >= 1
     /\ "failed" \in done
     /\ "decode" \in done => "kpts" \in done)
        => (result.error = "RuntimeError" /\ opens = num_retries)

\* C4 (as claimed): the exhaustion error names the index and the path that
\* the last attempt handed to the container open.
C4_ErrorNamesLastTried ==
    (pc = "raised" /\ result.error = "RuntimeError")
        => /\ result.index = opened_index
           /\ result.path = path_to_videos[opened_index + 1]

C6_ReturnedIndexIsDecoded ==
    pc = "returned" =>
        /\ result.index = opened_index
        /\ result.index \in Indices
        /\ {"open", "decode", "validate"} \subseteq done
        /\ "failed" \notin done
        /\ opens = 1 => result.index = requested

C6_Witness ==
    /\ pc = "returned"
    /\ opens > 1
    /\ result.index # requested
    /\ result.index = opened_index

\* C7: a call that has ended has either raised or returned, and a returned
\* tuple comes from an attempt that opened the container, decoded a clip
\* that passed validation, aligned the boxes and post-processed the frames.
C7_NoPartialResult ==
    /\ pc = "returned" <=> result.kind = "return"
    /\ pc = "raised" => result.kind = "raise"
    /\ result.kind = "return" =>
          /\ done = AllSteps
          /\ result.frames = post_process(DecodedPixels)
          /\ Len(result.bboxes) > 0

C7_Witness ==
    /\ pc = "returned"
    /\ opens > 1
    /\ done = AllSteps

ValidatedAttemptEndsFetch ==
    pc \in {"align", "post"} =>
        /\ opens' = opens
        /\ pc' \in {"align", "post"} \cup Ended
        /\ pc' = "returned" =>
              /\ result'.kind = "return"
              /\ result'.index = index
              /\ result'.aux = {}
              /\ result'.bboxes = bboxes
              /\ result'.label =
                    coerce_label(labels[index + 1], cfg.NUM_CLASSES)

C9_BinaryLabel ==
    (pc = "returned" /\ cfg.NUM_CLASSES = 2) => result.label \in {0, 1}

\* C10: once constructed, whatever fetches and epoch-setter calls follow,
\* the three manifest arrays have one length, which is len(dataset) and the
\* number of manifest lines.
C10_ArraysSameLength ==
    pc \notin {"new", "ctor_failed"} =>
        /\ Len(path_to_videos) = Len(labels)
        /\ Len(labels) = Len(spatial_temporal_idx)
        /\ num_videos = Len(manifest)
        /\ num_videos > 0

C10_Witness ==
    /\ pc = "returned"
    /\ epoch # 0
    /\ num_videos = 2
    /\ Len(spatial_temporal_idx) = 2

\* C11: a manifest that does not exist, has a line splitting on the separator
\* into a number of fields other than 1, 2 or 3, or has no line at all never
\* gives a constructed loader: construction ends in an error and no call is
\* ever served.
BadManifest ==
    \/ ~csv_exists
    \/ Len(manifest) = 0
    \/ \E k \in 1..Len(manifest) : Len(split(manifest[k], Sep)) \notin {1, 2, 3}

ExpectedEntry(line) ==
    CASE line = <<"a", ",", "2">> ->
             [path |-> <<"p", "/", "a">>, label |-> 2]
      [] line = <<"b">> ->
             [path |-> <<"p", "/", "b">>, label |-> 0]
      [] line = <<"c", ",", "x", ",", "-", "1">> ->
             [path |-> <<"p", "/", "c">>, label |-> 0 - 1]

C13_UnsupportedModeRejected ==
    mode \notin {"train", "val", "test"} =>
        /\ pc \in {"new", "ctor_failed"}
        /\ pc = "ctor_failed" => result = Raise("AssertionError")
        /\ requested = 0 - 1
        /\ opens = 0

C13_Witness ==
    /\ mode = "bogus"
    /\ pc = "ctor_failed"
    /\ csv_exists
    /\ Len(manifest) > 0
    /\ ~BadManifest
    /\ result.error = "AssertionError"

OpenFailureRule ==
    (pc = "acquire" /\ pc' \in {"acquire", "exhaust"}) =>
        /\ IF mode # "test" /\ i_try > num_retries \div RetryDivisor
           THEN index' \in Indices
           ELSE index' = index
        /\ (index = requested /\ i_try <= num_retries \div RetryDivisor)
              => index' = requested

\* C15: when the container of attempt i_try does not open, the next attempt
\* gets an index drawn from 0 .. num_videos - 1 if the mode is not test and
\* i_try > num_retries // 8, and the same index otherwise; so an attempt on
\* the requested index at or below that threshold hands the requested index
\* on to the next attempt.
C15_OpenFailureReplacement == [][OpenFailureRule]_vars

C15_Witness ==
    /\ pc = "acquire"
    /\ done = {"failed"}
    /\ mode = "val"
    /\ i_try = (num_retries \div RetryDivisor) + 2
    /\ opened_index = requested
    /\ index # requested

DecodeFailureRule ==
    (/\ mode \in {"train", "val"}
     /\ num_retries >= 1
     /\ pc = "validate"
     /\ decode_failed(frames_decoded)) =>
        /\ pc' \in {"acquire", "exhaust"}
        /\ LET d == num_retries \div RetryDivisor
           IN  /\ d > 0
               /\ IF i_try % d = 0
                  THEN index' \in Indices
                  ELSE index' = index

\* C16 (as claimed): in train and val mode, for every budget of at least one,
\* a decode result that fails validation at attempt i_try is followed by the
\* next attempt (or the for-else clause) with an index drawn from
\* 0 .. num_videos - 1 if i_try modulo (num_retries // 8) is 0 and with the
\* same index otherwise.
C16_DecodeFailureReplacement == [][DecodeFailureRule]_vars

\* C17 (as claimed): the steps of an attempt are completed in the order open,
\* decode, validate, align, post-process, and an attempt whose decode result
\* fails validation never touches the keypoint store.
C17_StepOrder ==
    /\ "decode" \in done => "open" \in done
    /\ "validate" \in done => "decode" \in done
    /\ "align" \in done => "validate" \in done
    /\ "post" \in done => "align" \in done
    /\ "failed" \in done => "kpts" \notin done

\* C18: in test mode the index of a fetch is the requested one at every
\* step: each container opened is that of the requested index and a
\* returned tuple carries the requested index.
C18_TestModeKeepsIndex ==
    (mode = "test" /\ pc \in Running \cup Ended) =>
        /\ index = requested
        /\ opens > 0 => opened_index = requested
        /\ result.kind = "return" => result.index = requested

C18_Witness ==
    /\ mode = "test"
    /\ pc = "returned"
    /\ num_videos = 2
    /\ opens = num_retries
    /\ num_retries > RetryDivisor
    /\ result.index = requested

\* C19: in test mode, for a stored index s >= 0 and n = NUM_SPATIAL_CROPS
\* >= 1, the selector gives temporal_sample_index = floor(s / n), and
\* spatial_sample_index = s mod n if n > 1 and 1 if n = 1; n = 3 and s = 5
\* give 1 and 2.
C19_TestSelector ==
    (mode = "test" /\ pc \in Running \cup Ended) =>
        LET s == spatial_temporal_idx[requested + 1]
            n == cfg.NUM_SPATIAL_CROPS
            t == sampling.temporal_sample_index
            x == sampling.spatial_sample_index
        IN  /\ t * n <= s /\ s < (t + 1) * n
            /\ n > 1 => (x = s - t * n /\ 0 <= x /\ x < n)
            /\ n = 1 => x = 1
            /\ (n = 3 /\ s = 5) => (t = 1 /\ x = 2)

C19_Witness ==
    /\ mode = "test"
    /\ pc = "acquire"
    /\ cfg.NUM_SPATIAL_CROPS = 3
    /\ spatial_temporal_idx = <<5>>
    /\ sampling.temporal_sample_index = 1
    /\ sampling.spatial_sample_index = 2

ScalesAgree ==
    /\ sampling.min_scale = sampling.max_scale
    /\ sampling.max_scale = sampling.crop_size

AssertionGuardsOpen ==
    /\ opens > 0 => ScalesAgree
    /\ ~ScalesAgree => (pc = "raised" /\ result = Raise("AssertionError"))

\* C20 (as claimed): in train and val mode min_scale, max_scale and
\* crop_size of a fetch are all values of TRAIN_JITTER_SCALES, and the fetch
\* raises an assertion error before any container is opened unless the
\* three are equal.
C20_ScalesFromJitterRange ==
    (mode \in {"train", "val"} /\ pc \in Running \cup Ended) =>
        /\ sampling.min_scale = cfg.TRAIN_JITTER_SCALES[1]
        /\ sampling.max_scale = cfg.TRAIN_JITTER_SCALES[2]
        /\ sampling.crop_size \in { cfg.TRAIN_JITTER_SCALES[1],
                                    cfg.TRAIN_JITTER_SCALES[2] }
        /\ AssertionGuardsOpen

\* C20 (amended): in train and val mode min_scale and max_scale are the two
\* values of TRAIN_JITTER_SCALES and crop_size is the fixed value 256; the
\* fetch raises an assertion error before any container is opened unless
\* min_scale = max_scale = 256.
C20_ScalesAndFixedCrop ==
    (mode \in {"train", "val"} /\ pc \in Running \cup Ended) =>
        /\ sampling.min_scale = cfg.TRAIN_JITTER_SCALES[1]
        /\ sampling.max_scale = cfg.TRAIN_JITTER_SCALES[2]
        /\ sampling.crop_size = TrainCropSize
        /\ AssertionGuardsOpen

C20_Witness ==
    /\ mode = "val"
    /\ pc = "raised"
    /\ result.error = "AssertionError"
    /\ cfg.TRAIN_JITTER_SCALES = <<224, 224>>
    /\ sampling.crop_size = TrainCropSize
    /\ opens = 0

PostProcessedClip ==
    (pc = "post" /\ pc' = "returned") =>
        LET x == pixels
            y == result'.frames
        IN  /\ shape(y) = <<shape(x)[4], shape(x)[1], shape(x)[2], shape(x)[3]>>
            /\ \A t \in 1..shape(x)[1], h \in 1..shape(x)[2],
                  w \in 1..shape(x)[3], c \in 1..shape(x)[4] :
                  LET q == y[c][t][h][w]
                  IN  /\ q.den > 0
                      /\ q.num * ByteMax = x[t][h][w][c] * q.den
                      /\ 0 <= q.num /\ q.num <= q.den

\* C14: for a decoded clip of bytes 0..255 laid out (time, height, width,
\* channel), the post-processed tensor is laid out (channel, time, height,
\* width): its entry [c][t][h][w] is the byte [t][h][w][c] divided by 255,
\* a value between 0 and 1.
C14_ChannelFirstUnitRange == [][PostProcessedClip]_vars

C14_Witness ==
    /\ pc = "returned"
    /\ shape(result.frames) =
          <<ClipChannels, ClipFrames, ClipHeight, ClipWidth>>
    /\ result.frames[ClipChannels][ClipFrames][ClipHeight][ClipWidth]
          = [num |-> ByteMax, den |-> ByteMax]
    /\ result.frames[1][1][1][1] = [num |-> 0, den |-> ByteMax]

\* C21: in test mode the selector gives min_scale = max_scale under every
\* configuration and for every index, so its assertion never fails: the call
\* goes on to the retry loop with one spatial scale.
C21_TestScalesEqual ==
    (mode = "test" /\ pc \in Running \cup Ended) =>
        /\ sampling.min_scale = sampling.max_scale
        /\ sampling.min_scale \in { cfg.TEST_CROP_SIZE,
                                    cfg.TRAIN_JITTER_SCALES[1] }
        /\ result.error # "AssertionError"

C21_Witness ==
    /\ mode = "test"
    /\ pc = "acquire"
    /\ cfg.TRAIN_JITTER_SCALES = <<256, 320>>
    /\ cfg.NUM_SPATIAL_CROPS = 1
    /\ sampling.min_scale = 256
    /\ sampling.max_scale = 256

AlignedBoxesReturned ==
    pc = "post" =>
        /\ Len(bboxes) = Len(bbox_index_decoded)
        /\ \A k \in 1..Len(bboxes) :
             LET polys == SideFile(path_to_videos[index + 1])
                              [bbox_index_decoded[k]]
             IN  /\ Len(bboxes[k]) = Len(polys)
                 /\ \A b \in 1..Len(polys) :
                      bboxes[k][b] = actual_pts(polys[b])
        /\ pc' = "returned"
        /\ result'.index = index
        /\ result'.bboxes = bboxes

KeypointCacheStep ==
    pc \notin {"new", "ctor_failed"} =>
        /\ \A i \in DOMAIN kpts : i \in DOMAIN kpts' /\ kpts'[i] = kpts[i]
        /\ loaded' # loaded =>
              /\ pc = "load_kpts"
              /\ index \notin DOMAIN kpts
              /\ DOMAIN kpts' = DOMAIN kpts \cup {index}
              /\ kpts'[index] = SideFile(path_to_videos[index + 1])

\* C27: over all fetches on one instance the side file of an index is read
\* at most once, by the first attempt that reaches the keypoint load with
\* that index, and a record once in the cache is never removed or changed.
C27_SideFileLoadedOnce ==
    /\ [] (\A i \in DOMAIN loaded : loaded[i] = 1 /\ i \in DOMAIN kpts)
    /\ [] (\A i \in DOMAIN kpts : i \in DOMAIN loaded)
    /\ [][KeypointCacheStep]_vars

C27_Witness ==
    /\ pc = "validate"
    /\ DOMAIN kpts = {0, 1}
    /\ index = 1
    /\ requested = 1
    /\ i_try = 0
    /\ loaded = (0 :> 1) @@ (1 :> 1)
    /\ "kpts" \in done

\* C28 (as claimed): the flip option handed to spatial sampling is the
\* configured one in train mode and off in val and test mode.
C28_FlipTrainOnly ==
    spatial_sampling_args.called =>
        spatial_sampling_args.random_horizontal_flip =
            (mode = "train" /\ cfg.RANDOM_FLIP)

\* C28 (amended): the flip option handed to spatial sampling is the
\* configured RANDOM_FLIP in every mode; only the motion shift is the
\* configured one in train mode and off in val and test mode.
C28_FlipAsConfigured ==
    spatial_sampling_args.called =>
        /\ spatial_sampling_args.random_horizontal_flip = cfg.RANDOM_FLIP
        /\ spatial_sampling_args.motion_shift =
              (mode = "train" /\ cfg.TRAIN_JITTER_MOTION_SHIFT)

C28_Witness ==
    /\ pc = "returned"
    /\ mode = "val"
    /\ cfg.RANDOM_FLIP
    /\ cfg.TRAIN_JITTER_MOTION_SHIFT
    /\ spatial_sampling_args.called
    /\ spatial_sampling_args.random_horizontal_flip
    /\ ~spatial_sampling_args.motion_shift

\* C29: the label and the boxes of a returned tuple are those of the
\* returned index: the label of its manifest line, made 1 when positive
\* under two classes, and the rectangles of the keypoint record of its own
\* video, also after the index was replaced.
C29_LabelAndBoxesOfReturnedIndex ==
    result.kind = "return" =>
        LET i     == result.index
            entry == ExpectedEntry(manifest[i + 1])
            file  == SideFile(entry.path)
        IN  /\ i \in Indices
            /\ result.label =
                 (IF cfg.NUM_CLASSES = 2 /\ entry.label > 0 THEN 1
                  ELSE entry.label)
            /\ i \in DOMAIN kpts /\ kpts[i] = file
            /\ result.bboxes =
                 << small_bboxes(file[0]), small_bboxes(file[1]) >>

C29_Witness ==
    /\ pc = "returned"
    /\ ~stub.on
    /\ cfg.NUM_CLASSES = 3
    /\ manifest = << <<"b">>, <<"c", ",", "x", ",", "-", "1">> >>
    /\ requested = 0
    /\ result.index = 1
    /\ result.label = 0 - 1
    /\ result.bboxes = << << actual_pts(Poly2) >>, << actual_pts(Poly1) >> >>

\* C30: during a fetch the current index is one of 0 .. num_videos - 1,
\* whatever was replaced, and the metadata cache of a constructed loader has
\* exactly the keys 0 .. num_videos - 1, so that the path, the label and the
\* metadata of the current index exist.
C30_IndexInRange ==
    /\ pc \in Running \cup Ended =>
          /\ requested \in Indices
          /\ index \in Indices
          /\ index + 1 \in DOMAIN path_to_videos
          /\ index + 1 \in DOMAIN labels
          /\ index \in DOMAIN video_meta
    /\ pc \notin {"new", "ctor_failed"} => DOMAIN video_meta = Indices

C30_Witness ==
    /\ pc = "acquire"
    /\ num_videos = 2
    /\ requested = 0
    /\ index = 1
    /\ i_try = num_retries - 1
    /\ DOMAIN video_meta = {0, 1}

-----------------------------------------------------------------------------
(* The metadata cache and the decoder (lines 362-373).                     *)

\* How far from MetaCacheLimit the cache sizes tried lie.
MetaMargin == 2

\* The sizes of self._video_meta tried: the one-video loader and the sizes
\* around the limit of line 369.
MetaLens ==
    {1} \cup ((MetaCacheLimit - MetaMargin) .. (MetaCacheLimit + MetaMargin))

\* A fetch of video 0 that has opened the container and is about to decode,
\* on a loader whose metadata cache has meta_len entries.  Only the entry of
\* video 0 is written out; the lists of the other videos are left out, the
\* fetch reads none of them.
InitMeta ==
    /\ mode \in {"train", "val", "test"}
    /\ num_retries \in RetryBudgets \ {0}
    /\ cfg \in { c \in Configs : c.NUM_SPATIAL_CROPS = 1 }
    /\ csv_exists = TRUE
    /\ manifest = << MasterFile[1] >>
    /\ path_to_videos = << join(PathPrefix, <<"a">>) >>
    /\ labels = <<2>>
    /\ spatial_temporal_idx = <<0>>
    /\ video_meta = (0 :> {})
    /\ meta_len \in MetaLens
    /\ skip_rows = 0
    /\ reads = 0
    /\ kpts = <<>>
    /\ loaded = <<>>
    /\ epoch = 0
    /\ pc = "decode"
    /\ index = 0
    /\ i_try = 0
    /\ video_container = "container"
    /\ frames_decoded = "None"
    /\ pixels = <<>>
    /\ meta_arg = NoMeta
    /\ bbox_index_decoded = <<>>
    /\ bboxes = <<>>
    /\ sampling = sampling_params(mode, cfg, 0)
    /\ spatial_sampling_args = NoCall
    /\ result = NoResult
    /\ requested = 0
    /\ opens = 1
    /\ opened_index = 0
    /\ done = {"open"}
    /\ stub = [on |-> FALSE, F |-> {}]

NextMeta == Decode

SpecMeta == InitMeta /\ [][NextMeta]_vars

\* The decode call of this attempt has been made.
DecodeCalled == pc = "load_kpts" /\ "decode" \in done

\* C24 as stated: the decoder receives the cached map of the index while
\* the cache holds at most MetaCacheLimit entries, a new empty map once it
\* holds more, and the decode call does not raise.
C24_CachedUpToLimit ==
    DecodeCalled =>
        /\ meta_len <= MetaCacheLimit
              => meta_arg = [source |-> "cache", key |-> index]
        /\ meta_len > MetaCacheLimit => meta_arg.source = "fresh"
        /\ result = NoResult

\* C24 amended: the decoder receives the cached map of the index while the
\* cache holds fewer than MetaCacheLimit entries, a new empty map from
\* MetaCacheLimit entries on, and the decode call does not raise whatever
\* the size of the cache.
C24_CachedBelowLimit ==
    DecodeCalled =>
        /\ meta_len < MetaCacheLimit
              => meta_arg = [source |-> "cache", key |-> index]
        /\ meta_len >= MetaCacheLimit => meta_arg.source = "fresh"
        /\ result = NoResult

\* A decode call made with exactly MetaCacheLimit entries in the cache.
C24_Witness ==
    /\ DecodeCalled
    /\ meta_len = MetaCacheLimit
    /\ skip_rows = 0
    /\ reads = 0
    /\ meta_arg.source = "fresh"
    /\ frames_decoded = "clip"

-----------------------------------------------------------------------------
(* Chunked ingestion (lines 75-79, 138-144, 194-206).                      *)

MaxChunk == 2   \* largest LOADER_CHUNK_SIZE tried
MaxSkip == 3    \* largest SKIP_ROWS tried
MaxLines == 4   \* longest manifest tried

\* Line k of the manifests read in chunks: a bare path, no separator.
ChunkLine(k) == [j \in 1..k |-> "v"]

\* The manifests read in chunks: the empty file and the files of the first
\* 1..MaxLines lines.
ChunkManifests == { [k \in 1..n |-> ChunkLine(k)] : n \in 0..MaxLines }

\* The configurations of chunked ingestion: every chunk size up to MaxChunk
\* (0: line-by-line reading) with every configured offset up to MaxSkip.
ChunkConfigs ==
    { [c EXCEPT !.LOADER_CHUNK_SIZE = size, !.SKIP_ROWS = skip] :
        c \in { d \in Configs : d.NUM_SPATIAL_CROPS = 1 /\ d.NUM_CLASSES = 2 },
        size \in 0..MaxChunk, skip \in 0..MaxSkip }

InitChunk ==
    /\ mode \in {"train", "val"}
    /\ num_retries = 1
    /\ cfg \in ChunkConfigs
    /\ csv_exists \in BOOLEAN
    /\ manifest \in (IF csv_exists THEN ChunkManifests ELSE { <<>> })
    /\ path_to_videos = <<>>
    /\ labels = <<>>
    /\ spatial_temporal_idx = <<>>
    /\ video_meta = <<>>
    /\ meta_len = 0
    /\ skip_rows = 0
    /\ reads = 0
    /\ kpts = <<>>
    /\ loaded = <<>>
    /\ epoch = 0
    /\ pc = "new"
    /\ index = -1
    /\ i_try = -1
    /\ video_container = "None"
    /\ frames_decoded = "None"
    /\ pixels = <<>>
    /\ meta_arg = NoMeta
    /\ bbox_index_decoded = <<>>
    /\ bboxes = <<>>
    /\ sampling = Unassigned
    /\ spatial_sampling_args = NoCall
    /\ result = NoResult
    /\ requested = -1
    /\ opens = 0
    /\ opened_index = -1
    /\ done = {}
    /\ stub = [on |-> FALSE, F |-> {}]

NextChunk ==
    \/ Construct
    \/ set_epoch_num

SpecChunk == InitChunk /\ [][NextChunk]_vars

\* The construction has run _get_chunk to its end.
ChunkLoadEnded ==
    /\ pc \in {"idle", "ctor_failed"}
    /\ csv_exists
    /\ use_chunk_loading(mode, cfg)

\* C22: a chunk load makes at most two reads, the second one at offset zero,
\* and then has returned a chunk or failed.
C22_AtMostTwoReads ==
    ChunkLoadEnded =>
        /\ reads \in {1, 2}
        /\ reads = 2 => skip_rows = 0

\* The construction has loaded a chunk and built the loader from it.
ChunkLoaded ==
    /\ pc = "idle"
    /\ use_chunk_loading(mode, cfg)

\* The offset at which the read that gave the chunk was made.
offset_read == IF reads = 1 THEN cfg.SKIP_ROWS ELSE 0

\* C23: a chunk load reads at most LOADER_CHUNK_SIZE rows and leaves the
\* row-skip offset advanced past the offset it read at, so that the next
\* load starts after the rows of this one.
C23_OffsetAdvances ==
    ChunkLoaded =>
        /\ num_videos <= cfg.LOADER_CHUNK_SIZE
        /\ skip_rows > offset_read

-----------------------------------------------------------------------------
(* Frame effects of a fetch and of the epoch setter.                       *)

\* The instance state other than the bounding-box cache and the epoch.
fixedAfterConstruction ==
    <<mode, num_retries, cfg, path_to_videos, labels, spatial_temporal_idx,
      video_meta, meta_len, skip_rows>>

\* One step of a constructed loader: no step changes the manifest arrays, the
\* mode, the configuration or the retry budget; a step of a fetch leaves the
\* epoch alone and writes the bounding-box cache only at the keypoint load;
\* a step that changes the epoch changes nothing else.
FrameStep ==
    pc \notin {"new", "ctor_failed"} =>
        /\ UNCHANGED fixedAfterConstruction
        /\ pc \in Running => epoch' = epoch
        /\ pc' # pc => epoch' = epoch
        /\ kpts' # kpts => pc = "load_kpts" /\ epoch' = epoch
        /\ epoch' # epoch =>
              /\ pc \in {"idle"} \cup Ended
              /\ UNCHANGED <<kpts, pc, fetchLocals, result, sampling,
                             spatial_sampling_args>>

\* C31: a fetch, returning or raising, leaves the manifest arrays, the mode,
\* the retry budget and the epoch unchanged and writes no instance state but
\* the bounding-box cache; the epoch setter changes nothing but the epoch.
C31_FrameEffects == [][FrameStep]_vars

\* A fetch has raised after the epoch was set and a side file was cached.
C31_Witness ==
    /\ pc = "raised"
    /\ result.kind = "raise"
    /\ epoch = 1
    /\ DOMAIN kpts # {}
    /\ opens > 0
    /\ num_videos = 2

-----------------------------------------------------------------------------
(* The views of a test-mode fetch on a constructed loader.                 *)

C32_WitnessOneCrop ==
    /\ mode = "test"
    /\ pc = "returned"
    /\ cfg.NUM_SPATIAL_CROPS = 1
    /\ requested = 1
    /\ spatial_sampling_args.called
    /\ spatial_sampling_args.spatial_idx = 1

=============================================================================
